---- MODULE Spec2Model ----
(***************************************************************************)
(* Model of scripts/generate-benchmark-graphs.py: the three report         *)
(* extractors, library-name normalisation, the latest-file locator, the    *)
(* merger and the main pipeline.                                           *)
(*                                                                         *)
(* Representation.                                                         *)
(*  - A piece of text that the code treats character-wise (a library       *)
(*    label, a parser name) is a sequence of words; the word " " is a run  *)
(*    of whitespace.  A numeric field ([\d.]+) is a sequence of the        *)
(*    characters "0".."9" and ".".                                         *)
(*  - The content of a report file is a sequence of lines.  A line is one  *)
(*    of: a library header ("Library: <label>\nSize: <size> KB", which the *)
(*    header pattern matches as one unit), a Java result row               *)
(*    ("Our Java Parser | <time> | <thr>"), a medal row                    *)
(*    ("<medal> <parser> | <time> | <ratio>x | <thr>[ KB/ms]"), or any     *)
(*    other line, which no pattern matches.                                *)
(*  - A float is held in thousandths, as an integer.                       *)
(*  - A dict is a function; the empty dict is the empty function.          *)
(***************************************************************************)
EXTENDS Integers, Sequences, FiniteSets, TLC

VARIABLES
    file,           \* extractor runs: the report file handed to the extractor
    fmt,            \* extractor runs: which extractor has run ("none" before)
    out,            \* extractor runs: what the extractor returned or raised
    name,           \* normalisation runs: the current label
    applied,        \* normalisation runs: the labels seen so far, oldest first
    java_results,   \* main / merge: result of parse_java_results
    js_results,     \* main / merge: result of parse_javascript_results
    rust_results,   \* main / merge: result of parse_rust_results
    all_results,    \* main / merge: result of merge_results
    pc,             \* main: position in main()
    fs,             \* main: the file system main() runs against
    located,        \* main: the triple returned by find_latest_results
    printed,        \* main: the messages printed so far, oldest first
    saved,          \* main: the charts written so far, oldest first
    steps,          \* main: the pipeline steps executed so far, oldest first
    exit_code       \* main: -1 while running, else the process exit status

vars == <<file, fmt, out, name, applied, java_results, js_results, rust_results,
          all_results, pc, fs, located, printed, saved, steps, exit_code>>

extractVars == <<file, fmt, out>>
normVars == <<name, applied>>
mainVars == <<java_results, js_results, rust_results, all_results, pc, fs,
              located, printed, saved, steps, exit_code>>

(***************************************************************************)
(* Bounds of the model.                                                    *)
(***************************************************************************)
MaxLines == 4       \* lines of a report file in the extractor runs
MaxApply == 2       \* applications of normalize_library_name in a run
MaxWords == 2       \* words of a label in the normalisation runs
MaxList == 1        \* measurements per library in the merger's inputs
MaxStamp == 1       \* distinct date stamps of result files in the directory

(***************************************************************************)
(* Words and characters.                                                   *)
(***************************************************************************)
WS == " "

EmptyDict == <<>>

RECURSIVE LStrip(_)
LStrip(s) == IF s # <<>> /\ Head(s) = WS THEN LStrip(Tail(s)) ELSE s

RECURSIVE RStrip(_)
RStrip(s) ==
    IF s # <<>> /\ s[Len(s)] = WS THEN RStrip(SubSeq(s, 1, Len(s) - 1)) ELSE s

\* str.strip()
Strip(s) == RStrip(LStrip(s))

\* a replace() that never matches
ReplaceRustNoMatch(s) == s

\* str.replace(' (Rust)', ''): every non-overlapping occurrence, left to right
RECURSIVE ReplaceRust(_)
ReplaceRust(s) ==
    IF s = <<>> THEN <<>>
    ELSE IF Len(s) >= 2 /\ s[1] = WS /\ s[2] = "(Rust)"
         THEN ReplaceRust(SubSeq(s, 3, Len(s)))
         ELSE <<Head(s)>> \o ReplaceRust(Tail(s))

DigitValue ==
    [c \in {"0", "1", "2", "3", "4", "5", "6", "7", "8", "9"} |->
        CASE c = "0" -> 0 [] c = "1" -> 1 [] c = "2" -> 2 [] c = "3" -> 3
          [] c = "4" -> 4 [] c = "5" -> 5 [] c = "6" -> 6 [] c = "7" -> 7
          [] c = "8" -> 8 [] c = "9" -> 9]

Dots(t) == {i \in 1..Len(t) : t[i] = "."}

\* float() accepts a [\d.]+ text iff it has at most one dot and a digit
CanFloat(t) == Cardinality(Dots(t)) <= 1 /\ Len(t) > Cardinality(Dots(t))

RECURSIVE DigitsValue(_, _)
DigitsValue(ds, acc) ==
    IF ds = <<>> THEN acc ELSE DigitsValue(Tail(ds), 10 * acc + DigitValue[Head(ds)])

\* the first three fractional digits, right-padded with zeros
FracThousandths(ds) ==
    LET d(i) == IF i <= Len(ds) THEN DigitValue[ds[i]] ELSE 0
    IN  100 * d(1) + 10 * d(2) + d(3)

\* float(t) in thousandths, for a text float() accepts
Float(t) ==
    LET dot == IF Dots(t) = {} THEN Len(t) + 1 ELSE CHOOSE i \in Dots(t) : TRUE
    IN  1000 * DigitsValue(SubSeq(t, 1, dot - 1), 0)
          + FracThousandths(SubSeq(t, dot + 1, Len(t)))

(***************************************************************************)
(* normalize_library_name                                                  *)
(***************************************************************************)
name_map ==
    (<<"react.production.min.js">> :> <<"React">>)
    @@ (<<"vue.global.prod.js">> :> <<"Vue", " ", "3">>)
    @@ (<<"react-dom.production.min.js">> :> <<"React", " ", "DOM">>)
    @@ (<<"lodash.js">> :> <<"Lodash">>)
    @@ (<<"three.js">> :> <<"Three.js">>)
    @@ (<<"typescript.js">> :> <<"TypeScript", " ", "Compiler">>)

\* a lookup without the default: an unknown label is lost
normalize_without_default(n) == IF n \in DOMAIN name_map THEN name_map[n] ELSE <<>>

normalize_library_name(n) == IF n \in DOMAIN name_map THEN name_map[n] ELSE n

(***************************************************************************)
(* Lines of a report file.                                                 *)
(***************************************************************************)
HeaderLine(label, size) == [k |-> "header", label |-> label, size |-> size]
JavaRow(time, thr) == [k |-> "java", time |-> time, thr |-> thr]
MedalRow(parser, time, thr, unit) ==
    [k |-> "medal", parser |-> parser, time |-> time, thr |-> thr, unit |-> unit]
OtherLine == [k |-> "other"]

BenchmarkResult(parser, language, avg_time, throughput) ==
    [parser |-> parser, language |-> language,
     avg_time_ms |-> avg_time, throughput_kb_ms |-> throughput]

\* what a call returns: a dict, or the exception that left it
Returned(results) == [exc |-> "none", results |-> results]
Raised(e) == [exc |-> e, results |-> EmptyDict]

\* results[key] = value
Put(results, key, value) ==
    [x \in DOMAIN results \cup {key} |-> IF x = key THEN value ELSE results[x]]

\* re.finditer(library_pattern, content): positions of the header matches
LibMatches(content) ==
    LET RECURSIVE Scan(_)
        Scan(i) == IF i > Len(content) THEN <<>>
                   ELSE IF content[i].k = "header" THEN <<i>> \o Scan(i + 1)
                   ELSE Scan(i + 1)
    IN  Scan(1)

\* content[start:end] for the header match number i of lib_matches
Section(content, lib_matches, i) ==
    LET start == lib_matches[i] + 1
        end == IF i + 1 <= Len(lib_matches) THEN lib_matches[i + 1] - 1
               ELSE Len(content)
    IN  SubSeq(content, start, end)

\* result_pattern of parse_java_results
MatchesJavaRow(line) == line.k = "java"

\* result_pattern of parse_javascript_results: (\S+) and a trailing KB/ms
MatchesJsRow(line) ==
    /\ line.k = "medal"
    /\ line.parser # <<>>
    /\ \A j \in 1..Len(line.parser) : line.parser[j] # WS
    /\ line.unit

\* result_pattern of parse_rust_results: (.+?) and nothing after the throughput
MatchesRustRow(line) == line.k = "medal" /\ line.parser # <<>>

(***************************************************************************)
(* parse_java_results                                                      *)
(***************************************************************************)
\* the body of "for match in re.finditer(library_pattern, content)", from the
\* header matches ms still to visit and the dict built so far
RECURSIVE JavaLoop(_, _, _)
JavaLoop(content, ms, results) ==
    IF ms = <<>> THEN Returned(results)
    ELSE
        LET match == content[Head(ms)]
            lib_name == Strip(match.label)
            remaining == SubSeq(content, Head(ms) + 1, Len(content))
            hits == {j \in 1..Len(remaining) : MatchesJavaRow(remaining[j])}
        IN  IF ~CanFloat(match.size) THEN Raised("ValueError")
            ELSE IF hits = {} THEN JavaLoop(content, Tail(ms), results)
            ELSE
                LET result_match ==
                        remaining[CHOOSE j \in hits : \A h \in hits : j <= h]
                IN  IF ~CanFloat(result_match.time) \/ ~CanFloat(result_match.thr)
                    THEN Raised("ValueError")
                    ELSE JavaLoop(content, Tail(ms),
                            Put(results, lib_name,
                                <<BenchmarkResult(<<"Harmonica">>, "Java",
                                                  Float(result_match.time),
                                                  Float(result_match.thr))>>))

\* the extractor without its "except FileNotFoundError"
parse_java_results_uncaught(f) ==
    IF ~f.exists THEN Raised("FileNotFoundError")
    ELSE JavaLoop(f.content, LibMatches(f.content), EmptyDict)

parse_java_results(f) ==
    IF ~f.exists THEN Returned(EmptyDict)
    ELSE JavaLoop(f.content, LibMatches(f.content), EmptyDict)

(***************************************************************************)
(* parse_javascript_results                                                *)
(***************************************************************************)
\* "for result_match in re.finditer(result_pattern, section)": the list
\* lib_results, or the ValueError of a float() of a matched row
RECURSIVE JsRows(_)
JsRows(section) ==
    IF section = <<>> THEN Returned(<<>>)
    ELSE IF ~MatchesJsRow(Head(section)) THEN JsRows(Tail(section))
    ELSE
        LET result_match == Head(section)
            parser == Strip(result_match.parser)
            rest == JsRows(Tail(section))
        IN  IF ~CanFloat(result_match.time) \/ ~CanFloat(result_match.thr)
            THEN Raised("ValueError")
            ELSE IF rest.exc # "none" THEN rest
            ELSE Returned(<<BenchmarkResult(parser, "JavaScript",
                                            Float(result_match.time),
                                            Float(result_match.thr))>>
                          \o rest.results)

\* the loop without "if lib_results": a header without rows gets an empty list
RECURSIVE JsLoopKeepingEmpty(_, _, _, _)
JsLoopKeepingEmpty(content, lib_matches, i, results) ==
    IF i > Len(lib_matches) THEN Returned(results)
    ELSE
        LET lib_match == content[lib_matches[i]]
            lib_name == normalize_library_name(Strip(lib_match.label))
            lib_results == JsRows(Section(content, lib_matches, i))
        IN  IF lib_results.exc # "none" THEN lib_results
            ELSE JsLoopKeepingEmpty(content, lib_matches, i + 1,
                                    Put(results, lib_name, lib_results.results))

\* the body of "for i, lib_match in enumerate(lib_matches)", from index i on
RECURSIVE JsLoop(_, _, _, _)
JsLoop(content, lib_matches, i, results) ==
    IF i > Len(lib_matches) THEN Returned(results)
    ELSE
        LET lib_match == content[lib_matches[i]]
            lib_name == normalize_library_name(Strip(lib_match.label))
            lib_results == JsRows(Section(content, lib_matches, i))
        IN  IF lib_results.exc # "none" THEN lib_results
            ELSE IF lib_results.results # <<>>
            THEN JsLoop(content, lib_matches, i + 1,
                        Put(results, lib_name, lib_results.results))
            ELSE JsLoop(content, lib_matches, i + 1, results)

parse_javascript_results(f) ==
    IF ~f.exists THEN Returned(EmptyDict)
    ELSE JsLoop(f.content, LibMatches(f.content), 1, EmptyDict)

(***************************************************************************)
(* parse_rust_results                                                      *)
(***************************************************************************)
RECURSIVE RustRows(_)
RustRows(section) ==
    IF section = <<>> THEN Returned(<<>>)
    ELSE IF ~MatchesRustRow(Head(section)) THEN RustRows(Tail(section))
    ELSE
        LET result_match == Head(section)
            parser == ReplaceRust(Strip(result_match.parser))
            rest == RustRows(Tail(section))
        IN  IF ~CanFloat(result_match.time) \/ ~CanFloat(result_match.thr)
            THEN Raised("ValueError")
            ELSE IF rest.exc # "none" THEN rest
            ELSE Returned(<<BenchmarkResult(parser, "Rust",
                                            Float(result_match.time),
                                            Float(result_match.thr))>>
                          \o rest.results)

RECURSIVE RustLoop(_, _, _, _)
RustLoop(content, lib_matches, i, results) ==
    IF i > Len(lib_matches) THEN Returned(results)
    ELSE
        LET lib_match == content[lib_matches[i]]
            lib_name == normalize_library_name(Strip(lib_match.label))
            lib_results == RustRows(Section(content, lib_matches, i))
        IN  IF lib_results.exc # "none" THEN lib_results
            ELSE IF lib_results.results # <<>>
            THEN RustLoop(content, lib_matches, i + 1,
                          Put(results, lib_name, lib_results.results))
            ELSE RustLoop(content, lib_matches, i + 1, results)

parse_rust_results(f) ==
    IF ~f.exists THEN Returned(EmptyDict)
    ELSE RustLoop(f.content, LibMatches(f.content), 1, EmptyDict)

(***************************************************************************)
(* Inputs of the extractor runs.                                           *)
(***************************************************************************)
Labels == {<<"react.production.min.js">>, <<"React", " ">>, <<"Foo">>}

GoodSize == <<"1", "0", ".", "0">>
BadSize == <<"1", ".", ".">>

Lines ==
    {HeaderLine(l, GoodSize) : l \in Labels}
    \cup {HeaderLine(<<"Foo">>, BadSize)}
    \cup {JavaRow(<<"1", ".", "5">>, <<"6", ".", "7">>),
          JavaRow(<<"2">>, <<"1", ".", "2", ".", "3">>)}
    \cup {MedalRow(<<"Meriyah">>, <<"0", ".", "2", "9", "5">>,
                   <<"3", "5", ".", "5">>, TRUE),
          MedalRow(<<"Acorn">>, <<"1", ".", "5">>, <<"6", ".", "7">>, TRUE),
          MedalRow(<<"Acorn">>, <<".">>, <<"6", ".", "7">>, TRUE),
          MedalRow(<<"OXC", " ", "(Rust)">>, <<"0", ".", "1", "3", "8">>,
                   <<"7", "6", ".", "2">>, FALSE),
          MedalRow(<<"SWC">>, <<"1", ".">>, <<".", "5">>, FALSE)}
    \cup {OtherLine}

Contents == UNION {[1..n -> Lines] : n \in 0..MaxLines}

NoFile == [exists |-> FALSE, content |-> <<>>]
ReportFile(content) == [exists |-> TRUE, content |-> content]

Files == {NoFile} \cup {ReportFile(c) : c \in Contents}

NotRun == Returned(EmptyDict)

\* what the variables of the other runs hold while a run does not use them
IdleExtract == file = NoFile /\ fmt = "none" /\ out = NotRun
IdleNorm == name = <<>> /\ applied = <<>>
IdleMain ==
    /\ java_results = EmptyDict /\ js_results = EmptyDict
    /\ rust_results = EmptyDict /\ all_results = EmptyDict
    /\ pc = "idle" /\ fs = <<>> /\ located = <<>>
    /\ printed = <<>> /\ saved = <<>> /\ steps = <<>> /\ exit_code = -1

(***************************************************************************)
(* Extractor runs: one extractor applied to one report file.               *)
(***************************************************************************)
InitExtract ==
    /\ file \in Files /\ fmt = "none" /\ out = NotRun
    /\ IdleNorm /\ IdleMain

RunJava ==
    /\ fmt = "none"
    /\ fmt' = "Java"
    /\ out' = parse_java_results(file)
    /\ UNCHANGED <<file, normVars, mainVars>>

RunJavaScript ==
    /\ fmt = "none"
    /\ fmt' = "JavaScript"
    /\ out' = parse_javascript_results(file)
    /\ UNCHANGED <<file, normVars, mainVars>>

RunRust ==
    /\ fmt = "none"
    /\ fmt' = "Rust"
    /\ out' = parse_rust_results(file)
    /\ UNCHANGED <<file, normVars, mainVars>>

NextExtract == RunJava \/ RunJavaScript \/ RunRust

SpecExtract == InitExtract /\ [][NextExtract]_vars

(***************************************************************************)
(* Vocabulary of the claims about the extractors.                          *)
(***************************************************************************)
Extractors == {"Java", "JavaScript", "Rust"}

\* a result row of the format f
IsRowOf(f, line) ==
    CASE f = "Java" -> MatchesJavaRow(line)
      [] f = "JavaScript" -> MatchesJsRow(line)
      [] f = "Rust" -> MatchesRustRow(line)

\* positions of the library headers of a text
HeaderPositions(content) == {i \in 1..Len(content) : content[i].k = "header"}

\* the last line of the section of the header at position i
SectionEnd(content, i) ==
    LET later == {h \in HeaderPositions(content) : h > i}
    IN  IF later = {} THEN Len(content)
        ELSE (CHOOSE h \in later : \A g \in later : h <= g) - 1

\* positions of the rows of format f in the section of the header at i
RowPositions(f, content, i) ==
    {j \in (i + 1)..SectionEnd(content, i) : IsRowOf(f, content[j])}

\* the library a header names: its label, stripped and normalised
LibraryOf(content, i) == normalize_library_name(Strip(content[i].label))

\* the elements of the set of positions ps in increasing order
RECURSIVE InOrder(_)
InOrder(ps) ==
    IF ps = {} THEN <<>>
    ELSE LET lo == CHOOSE p \in ps : \A q \in ps : p <= q
         IN  <<lo>> \o InOrder(ps \ {lo})

\* the numbers of every row and header size of the text are numbers
NumbersParse(f, content) ==
    \A j \in 1..Len(content) :
        /\ content[j].k = "header" => CanFloat(content[j].size)
        /\ IsRowOf(f, content[j]) =>
               CanFloat(content[j].time) /\ CanFloat(content[j].thr)

\* no two headers of the text name the same library
DistinctLibraries(content) ==
    \A i, h \in HeaderPositions(content) :
        LibraryOf(content, i) = LibraryOf(content, h) => i = h

\* a well-formed report of format f: numbers are numbers, every library has
\* one header, and a Java report has at most one row per library
WellFormed(f, content) ==
    /\ NumbersParse(f, content)
    /\ DistinctLibraries(content)
    /\ f = "Java" =>
           \A i \in HeaderPositions(content) :
               Cardinality(RowPositions(f, content, i)) <= 1

\* the list ms holds the numbers of the rows at positions ps, in order
SameNumbers(ms, content, ps) ==
    /\ Len(ms) = Cardinality(ps)
    /\ \A n \in 1..Len(ms) :
           /\ ms[n].avg_time_ms = Float(content[InOrder(ps)[n]].time)
           /\ ms[n].throughput_kb_ms = Float(content[InOrder(ps)[n]].thr)

\* C1: each extractor, on a well-formed text, returns exactly the libraries
\* whose section has at least one row of the format, each with one
\* measurement per row of its section, in the order of the rows and with the
\* numbers of the rows (libraries compared by their normalised name).
ExtractorReturnsSectionRows ==
    (fmt \in Extractors /\ file.exists /\ WellFormed(fmt, file.content)) =>
        LET content == file.content
            withRows == {i \in HeaderPositions(content) :
                             RowPositions(fmt, content, i) # {}}
        IN  /\ out.exc = "none"
            /\ {normalize_library_name(k) : k \in DOMAIN out.results}
                   = {LibraryOf(content, i) : i \in withRows}
            /\ \A k \in DOMAIN out.results :
                   \A i \in withRows :
                       LibraryOf(content, i) = normalize_library_name(k) =>
                           SameNumbers(out.results[k], content,
                                       RowPositions(fmt, content, i))

\* C2: a header whose section has no row of the format is not a key of the
\* extractor's output (unless another header of the same library has rows).
HeaderWithoutRowsIsOmitted ==
    (fmt \in Extractors /\ file.exists /\ out.exc = "none") =>
        LET content == file.content
        IN  \A i \in HeaderPositions(content) :
                (\A h \in HeaderPositions(content) :
                     LibraryOf(content, h) = LibraryOf(content, i) =>
                         RowPositions(fmt, content, h) = {})
                => /\ Strip(content[i].label) \notin DOMAIN out.results
                   /\ LibraryOf(content, i) \notin DOMAIN out.results

\* C3: every key of an extractor's output is the normalised form of the
\* label of a header of the text.
KeysAreNormalized ==
    (fmt \in Extractors /\ file.exists) =>
        \A k \in DOMAIN out.results :
            \E i \in HeaderPositions(file.content) :
                k = normalize_library_name(Strip(file.content[i].label))

\* the words of a parser name that are not part of a " (Rust)" decoration
DecorationAt(raw, j) == j < Len(raw) /\ raw[j] = WS /\ raw[j + 1] = "(Rust)"

Undecorated(raw) ==
    LET keep == {j \in 1..Len(raw) :
                     ~DecorationAt(raw, j) /\ ~(j > 1 /\ DecorationAt(raw, j - 1))}
    IN  [n \in 1..Cardinality(keep) |-> raw[InOrder(keep)[n]]]

\* C9: the Java extractor yields at most one measurement per key, always of
\* parser "Harmonica" and language "Java"; the JavaScript and Rust extractors
\* yield, for each key, one measurement per row of a section of that library,
\* each labelled with the extractor's language, and the Rust extractor stores
\* the parser name without its " (Rust)" decoration.
ExtractorRowPolicy ==
    (fmt \in Extractors /\ file.exists /\ out.exc = "none") =>
        \A k \in DOMAIN out.results :
            LET ms == out.results[k]
                content == file.content
            IN  /\ fmt = "Java" =>
                       /\ Len(ms) <= 1
                       /\ \A n \in 1..Len(ms) :
                              /\ ms[n].parser = <<"Harmonica">>
                              /\ ms[n].language = "Java"
                /\ fmt \in {"JavaScript", "Rust"} =>
                       \E i \in HeaderPositions(content) :
                           LET rows == RowPositions(fmt, content, i)
                           IN  /\ LibraryOf(content, i) = k
                               /\ Len(ms) = Cardinality(rows)
                               /\ \A n \in 1..Len(ms) :
                                      /\ ms[n].language = fmt
                                      /\ fmt = "Rust" =>
                                             ms[n].parser = Undecorated(
                                                 content[InOrder(rows)[n]].parser)

\* C9 witness: the Rust extractor returned two or more measurements for one
\* library, one of them read from a row whose parser carried the decoration.
ExtractorRowPolicyWitness ==
    /\ fmt = "Rust" /\ out.exc = "none"
    /\ \E k \in DOMAIN out.results :
           /\ Len(out.results[k]) >= 2
           /\ \E n \in 1..Len(out.results[k]) :
                  out.results[k][n].parser = <<"OXC">>
    /\ \E j \in 1..Len(file.content) :
           /\ file.content[j].k = "medal"
           /\ file.content[j].parser = <<"OXC", " ", "(Rust)">>

(***************************************************************************)
(* Normalisation runs: normalize_library_name applied again and again.     *)
(***************************************************************************)
NormWords ==
    {"react.production.min.js", "vue.global.prod.js",
     "react-dom.production.min.js", "lodash.js", "three.js", "typescript.js",
     "React", "Vue", "3", "DOM", "Lodash", "Three.js", "TypeScript",
     "Compiler", "Foo", WS}

NormLabels ==
    UNION {[1..n -> NormWords] : n \in 0..MaxWords}
    \cup {name_map[k] : k \in DOMAIN name_map}

InitNorm ==
    /\ name \in NormLabels /\ applied = <<name>>
    /\ IdleExtract /\ IdleMain

Normalize ==
    /\ Len(applied) <= MaxApply
    /\ name' = normalize_library_name(name)
    /\ applied' = Append(applied, name')
    /\ UNCHANGED <<extractVars, mainVars>>

NextNorm == Normalize

SpecNorm == InitNorm /\ [][NextNorm]_vars

\* C8: a key of the lookup table is mapped to its canonical name, any other
\* label is returned unchanged, and a second application changes nothing.
NormalizeIsLookupAndIdempotent ==
    \A n \in 2..Len(applied) :
        LET x == applied[n - 1]
            y == applied[n]
        IN  /\ x \in DOMAIN name_map => y = name_map[x]
            /\ x \notin DOMAIN name_map => y = x
            /\ n >= 3 => y = x

\* C8 witness: a key of the table was normalised to a different name, and
\* normalised once more.
NormalizeWitness ==
    /\ Len(applied) >= 3
    /\ applied[1] \in DOMAIN name_map
    /\ applied[2] # applied[1]

(***************************************************************************)
(* find_latest_results                                                     *)
(***************************************************************************)
Formats == {"java", "js", "rust"}

\* a file "<prefix>_<stamp>.txt", or "<prefix>_<tag>_<stamp>.txt" with a tag
FileName(prefix, tag, stamp) == [prefix |-> prefix, tag |-> tag, stamp |-> stamp]

\* the None of an absent path
NoPath == FileName("", "", 0)

\* sorted(glob(prefix_*.txt), reverse=True), filtered, first element or None;
\* among the untagged names of one prefix the order of the names is the order
\* of their stamps
LatestOf(names, prefix, excluded) ==
    LET files == {f \in names : f.prefix = prefix /\ f.tag \notin excluded}
    IN  IF files = {} THEN NoPath
        ELSE CHOOSE f \in files : \A g \in files : g.stamp <= f.stamp

find_latest_results(names) ==
    [java |-> LatestOf(names, "java", {"realworld", "our_parser"}),
     js |-> LatestOf(names, "js", {"realworld"}),
     rust |-> LatestOf(names, "rust", {"realworld"})]

(***************************************************************************)
(* merge_results                                                           *)
(***************************************************************************)
\* "if lib in d: merged[lib].extend(d[lib])"
Extend(d, lib) == IF lib \in DOMAIN d THEN d[lib] ELSE <<>>

\* a merge by dict.update(): the last source that has the key wins
merge_by_update(java, js, rust) ==
    [lib \in DOMAIN java \cup DOMAIN js \cup DOMAIN rust |->
        IF lib \in DOMAIN rust THEN rust[lib]
        ELSE IF lib \in DOMAIN js THEN js[lib] ELSE java[lib]]

merge_results(java, js, rust) ==
    LET all_libraries == DOMAIN java \cup DOMAIN js \cup DOMAIN rust
    IN  [lib \in all_libraries |->
            Extend(java, lib) \o Extend(js, lib) \o Extend(rust, lib)]

(***************************************************************************)
(* The chart functions: what they compute from the table and write.        *)
(***************************************************************************)
library_order ==
    << <<"React">>, <<"Vue", " ", "3">>, <<"React", " ", "DOM">>, <<"Lodash">>,
       <<"Three.js">>, <<"TypeScript", " ", "Compiler">> >>

\* [lib for lib in library_order if lib in results]
RECURSIVE OrderedLibraries(_, _)
OrderedLibraries(results, i) ==
    IF i > Len(library_order) THEN <<>>
    ELSE IF library_order[i] \in DOMAIN results
         THEN <<library_order[i]>> \o OrderedLibraries(results, i + 1)
         ELSE OrderedLibraries(results, i + 1)

AllParsers(results) ==
    UNION {{results[lib][n].parser : n \in 1..Len(results[lib])} :
               lib \in DOMAIN results}

\* max() of a non-empty list of numbers
Max(xs) == CHOOSE x \in {xs[n] : n \in 1..Len(xs)} :
               \A n \in 1..Len(xs) : xs[n] <= x

Times(lib_results) == [n \in 1..Len(lib_results) |-> lib_results[n].avg_time_ms]
Throughputs(lib_results) ==
    [n \in 1..Len(lib_results) |-> lib_results[n].throughput_kb_ms]

\* what a chart function leaves: the charts it saved, and its exception if any
Drawn(charts) == [exc |-> "none", charts |-> charts]
DrawnThenRaised(charts, e) == [exc |-> e, charts |-> charts]

create_time_comparison_chart(results) ==
    Drawn(<<[chart |-> "parsing_time_comparison",
             libraries |-> OrderedLibraries(results, 1),
             parsers |-> AllParsers(results)]>>)

create_throughput_comparison_chart(results) ==
    Drawn(<<[chart |-> "throughput_comparison",
             libraries |-> OrderedLibraries(results, 1),
             parsers |-> AllParsers(results)]>>)

\* "for lib in library_order", from index i on, after the charts done;
\* max(times) raises ValueError on an empty list
RECURSIVE PerLibraryLoop(_, _, _)
PerLibraryLoop(results, i, done) ==
    IF i > Len(library_order) THEN Drawn(done)
    ELSE IF library_order[i] \notin DOMAIN results
         THEN PerLibraryLoop(results, i + 1, done)
    ELSE
        LET lib == library_order[i]
            times == Times(results[lib])
        IN  IF times = <<>> THEN DrawnThenRaised(done, "ValueError")
            ELSE PerLibraryLoop(results, i + 1,
                     Append(done, [chart |-> "per_library", lib |-> lib,
                                   bars |-> Len(times),
                                   peak_time |-> Max(times)]))

create_per_library_charts(results) == PerLibraryLoop(results, 1, <<>>)

create_typescript_focused_chart(results) ==
    LET lib == <<"TypeScript", " ", "Compiler">>
    IN  IF lib \notin DOMAIN results THEN Drawn(<<>>)
        ELSE IF results[lib] = <<>> THEN DrawnThenRaised(<<>>, "ValueError")
        ELSE Drawn(<<[chart |-> "typescript_detailed",
                      bars |-> Len(results[lib]),
                      peak_time |-> Max(Times(results[lib])),
                      peak_throughput |-> Max(Throughputs(results[lib]))]>>)

(***************************************************************************)
(* main                                                                    *)
(***************************************************************************)
\* open(filepath): the file, or FileNotFoundError when it is gone by now
Open(f) == IF f \in fs.vanished THEN NoFile ELSE ReportFile(fs.content[f])

Step(s) == steps' = Append(steps, s)

\* an uncaught exception ends the process with a traceback and status 1
Crash ==
    /\ pc' = "crashed"
    /\ exit_code' = 1

\* the directory check without its sys.exit(1)
CheckDirWithoutExit ==
    /\ pc = "check_dir"
    /\ Step("check_dir")
    /\ printed' = IF ~fs.results_dir
                  THEN printed \o <<"Error: Results directory not found",
                                    "Run the benchmarks first">>
                  ELSE printed
    /\ pc' = "mkdir"
    /\ UNCHANGED <<extractVars, normVars, java_results, js_results, rust_results,
                   all_results, fs, located, saved, exit_code>>

CheckDir ==
    /\ pc = "check_dir"
    /\ Step("check_dir")
    /\ IF ~fs.results_dir
       THEN /\ printed' = printed \o <<"Error: Results directory not found",
                                       "Run the benchmarks first">>
            /\ pc' = "exited"
            /\ exit_code' = 1
       ELSE /\ pc' = "mkdir"
            /\ UNCHANGED <<printed, exit_code>>
    /\ UNCHANGED <<extractVars, normVars, java_results, js_results, rust_results,
                   all_results, fs, located, saved>>

Mkdir ==
    /\ pc = "mkdir"
    /\ Step("mkdir")
    /\ fs' = [fs EXCEPT !.output_dir = TRUE]
    /\ pc' = "locate"
    /\ UNCHANGED <<extractVars, normVars, java_results, js_results, rust_results,
                   all_results, located, printed, saved, exit_code>>

Locate ==
    /\ pc = "locate"
    /\ Step("locate")
    /\ located' = find_latest_results(fs.names)
    /\ printed' = Append(printed, "Parsing benchmark results...")
    /\ pc' = "parse_java"
    /\ UNCHANGED <<extractVars, normVars, java_results, js_results, rust_results,
                   all_results, fs, saved, exit_code>>

ParseJava ==
    /\ pc = "parse_java"
    /\ Step("parse_java")
    /\ LET r == IF located.java # NoPath THEN parse_java_results(Open("java"))
                ELSE Returned(EmptyDict)
       IN  IF r.exc # "none"
           THEN Crash /\ UNCHANGED java_results
           ELSE /\ java_results' = r.results
                /\ pc' = "parse_js"
                /\ UNCHANGED exit_code
    /\ UNCHANGED <<extractVars, normVars, js_results, rust_results, all_results,
                   fs, located, printed, saved>>

ParseJavaScript ==
    /\ pc = "parse_js"
    /\ Step("parse_js")
    /\ LET r == IF located.js # NoPath THEN parse_javascript_results(Open("js"))
                ELSE Returned(EmptyDict)
       IN  IF r.exc # "none"
           THEN Crash /\ UNCHANGED js_results
           ELSE /\ js_results' = r.results
                /\ pc' = "parse_rust"
                /\ UNCHANGED exit_code
    /\ UNCHANGED <<extractVars, normVars, java_results, rust_results, all_results,
                   fs, located, printed, saved>>

ParseRust ==
    /\ pc = "parse_rust"
    /\ Step("parse_rust")
    /\ LET r == IF located.rust # NoPath THEN parse_rust_results(Open("rust"))
                ELSE Returned(EmptyDict)
       IN  IF r.exc # "none"
           THEN Crash /\ UNCHANGED rust_results
           ELSE /\ rust_results' = r.results
                /\ pc' = "check_any"
                /\ UNCHANGED exit_code
    /\ UNCHANGED <<extractVars, normVars, java_results, js_results, all_results,
                   fs, located, printed, saved>>

\* the test on the list of the three dicts instead of any() of it: a list of
\* three elements is always true
AnyResultsOfList == TRUE

\* any([java_results, js_results, rust_results]): some dict is non-empty
AnyResults ==
    java_results # EmptyDict \/ js_results # EmptyDict \/ rust_results # EmptyDict

CheckAny ==
    /\ pc = "check_any"
    /\ Step("check_any")
    /\ IF ~AnyResults
       THEN /\ printed' = Append(printed, "Error: No benchmark results found!")
            /\ pc' = "exited"
            /\ exit_code' = 1
       ELSE /\ pc' = "merge"
            /\ UNCHANGED <<printed, exit_code>>
    /\ UNCHANGED <<extractVars, normVars, java_results, js_results, rust_results,
                   all_results, fs, located, saved>>

Merge ==
    /\ pc = "merge"
    /\ Step("merge")
    /\ all_results' = merge_results(java_results, js_results, rust_results)
    /\ printed' = printed \o <<"Found results", "Generating graphs...">>
    /\ pc' = "render_time"
    /\ UNCHANGED <<extractVars, normVars, java_results, js_results, rust_results,
                   fs, located, saved, exit_code>>

\* one chart function called by main, then on to the step after it
Render(at, drawn, then) ==
    /\ pc = at
    /\ Step(at)
    /\ saved' = saved \o drawn.charts
    /\ IF drawn.exc # "none"
       THEN Crash
       ELSE pc' = then /\ UNCHANGED exit_code
    /\ UNCHANGED <<extractVars, normVars, java_results, js_results, rust_results,
                   all_results, fs, located, printed>>

RenderTime ==
    Render("render_time", create_time_comparison_chart(all_results),
           "render_throughput")

RenderThroughput ==
    Render("render_throughput", create_throughput_comparison_chart(all_results),
           "render_per_library")

RenderPerLibrary ==
    Render("render_per_library", create_per_library_charts(all_results),
           "render_typescript")

RenderTypeScript ==
    Render("render_typescript", create_typescript_focused_chart(all_results),
           "finish")

Finish ==
    /\ pc = "finish"
    /\ Step("finish")
    /\ printed' = Append(printed, "All graphs saved")
    /\ pc' = "exited"
    /\ exit_code' = 0
    /\ UNCHANGED <<extractVars, normVars, java_results, js_results, rust_results,
                   all_results, fs, located, saved>>

NextMain ==
    \/ CheckDir \/ Mkdir \/ Locate
    \/ ParseJava \/ ParseJavaScript \/ ParseRust
    \/ CheckAny \/ Merge
    \/ RenderTime \/ RenderThroughput \/ RenderPerLibrary \/ RenderTypeScript
    \/ Finish

(***************************************************************************)
(* Inputs of the runs of main.                                             *)
(***************************************************************************)
Tags(prefix) ==
    IF prefix = "java" THEN {"", "realworld", "our_parser"} ELSE {"", "realworld"}

Names ==
    {FileName(p, "", s) : p \in Formats, s \in 1..MaxStamp}
    \cup {FileName(p, t, MaxStamp) : p \in Formats, t \in {"realworld"}}
    \cup {FileName("java", "our_parser", MaxStamp)}

TypeScriptReport ==
    <<HeaderLine(<<"typescript.js">>, GoodSize),
      JavaRow(<<"1", ".", "5">>, <<"6", ".", "7">>),
      MedalRow(<<"Meriyah">>, <<"0", ".", "2", "9", "5">>,
               <<"3", "5", ".", "5">>, TRUE),
      MedalRow(<<"OXC", " ", "(Rust)">>, <<"0", ".", "1", "3", "8">>,
               <<"7", "6", ".", "2">>, FALSE)>>

HeaderOnlyReport == <<HeaderLine(<<"Foo">>, GoodSize)>>

BrokenReport ==
    <<HeaderLine(<<"React", " ">>, GoodSize),
      JavaRow(<<"1", ".", "5">>, <<"6", ".", "7">>),
      MedalRow(<<"Acorn">>, <<".">>, <<"6", ".", "7">>, TRUE)>>

MainContents == {<<>>, HeaderOnlyReport, TypeScriptReport, BrokenReport}

\* a file system: the results directory with the names in it, the content of
\* the file the locator picks for each format, and the formats whose file is
\* removed between the directory scan and the open()
FileSystems ==
    {x \in [results_dir : BOOLEAN, output_dir : {FALSE}, names : SUBSET Names,
            content : [Formats -> MainContents], vanished : SUBSET Formats] :
        /\ ~x.results_dir => x.names = {}
        /\ \A f \in Formats :
               /\ find_latest_results(x.names)[f] = NoPath => f \notin x.vanished
               /\ (find_latest_results(x.names)[f] = NoPath \/ f \in x.vanished)
                      => x.content[f] = <<>>}

NotLocated == [java |-> NoPath, js |-> NoPath, rust |-> NoPath]

InitMain ==
    /\ fs \in FileSystems
    /\ pc = "check_dir"
    /\ located = NotLocated
    /\ java_results = EmptyDict /\ js_results = EmptyDict
    /\ rust_results = EmptyDict /\ all_results = EmptyDict
    /\ printed = <<>> /\ saved = <<>> /\ steps = <<>> /\ exit_code = -1
    /\ IdleExtract /\ IdleNorm

SpecMain == InitMain /\ [][NextMain]_vars

(***************************************************************************)
(* Merge runs: merge_results applied to three arbitrary tables.            *)
(***************************************************************************)
MergeKeys == {<<"React">>, <<"Foo">>}

MergeMeasurements ==
    {BenchmarkResult(<<"Harmonica">>, "Java", 1500, 6700),
     BenchmarkResult(<<"Meriyah">>, "JavaScript", 295, 35500)}

MergeLists == UNION {[1..n -> MergeMeasurements] : n \in 0..MaxList}

Tables == UNION {[ks -> MergeLists] : ks \in SUBSET MergeKeys}

InitMerge ==
    /\ java_results \in Tables /\ js_results \in Tables /\ rust_results \in Tables
    /\ all_results = EmptyDict
    /\ pc = "merge"
    /\ fs = <<>> /\ located = <<>>
    /\ printed = <<>> /\ saved = <<>> /\ steps = <<>> /\ exit_code = -1
    /\ IdleExtract /\ IdleNorm

NextMerge == Merge

SpecMerge == InitMerge /\ [][NextMerge]_vars

StepsDone == {steps[n] : n \in 1..Len(steps)}

RenderSteps ==
    {"render_time", "render_throughput", "render_per_library", "render_typescript"}

\* the list a table holds for a key, empty when it has no such key
ListOf(d, k) == IF k \in DOMAIN d THEN d[k] ELSE <<>>

\* C4: the merged table has exactly the keys of the three inputs, and the
\* list of each key is the Java list, then the JavaScript list, then the Rust
\* list of that key, nothing lost, nothing dropped as a duplicate.
MergeIsOrderedUnion ==
    "merge" \in StepsDone =>
        /\ DOMAIN all_results
               = DOMAIN java_results \cup DOMAIN js_results \cup DOMAIN rust_results
        /\ \A k \in DOMAIN all_results :
               LET a == ListOf(java_results, k)
                   b == ListOf(js_results, k)
                   c == ListOf(rust_results, k)
                   m == all_results[k]
               IN  /\ Len(m) = Len(a) + Len(b) + Len(c)
                   /\ \A n \in 1..Len(a) : m[n] = a[n]
                   /\ \A n \in 1..Len(b) : m[Len(a) + n] = b[n]
                   /\ \A n \in 1..Len(c) : m[Len(a) + Len(b) + n] = c[n]

\* C4 witness: merged tables in which one key comes from two sources with
\* different lists and another key from the third source alone.
MergeWitness ==
    /\ "merge" \in StepsDone
    /\ \E k \in DOMAIN java_results \cap DOMAIN js_results :
           /\ k \notin DOMAIN rust_results
           /\ java_results[k] # <<>> /\ js_results[k] # <<>>
           /\ java_results[k] # js_results[k]
    /\ \E k \in DOMAIN rust_results :
           /\ k \notin DOMAIN java_results \cup DOMAIN js_results
           /\ rust_results[k] # <<>>

(***************************************************************************)
(* Claims about main.                                                      *)
(***************************************************************************)
NoneExtracted ==
    java_results = EmptyDict /\ js_results = EmptyDict /\ rust_results = EmptyDict

\* the three extractors have returned
AllExtracted == pc = "check_any" \/ "check_any" \in StepsDone

\* C5: when the directory exists and the three extractors returned empty
\* tables, no merge and no rendering step is executed and, once the check of
\* the results has run, the run has ended with the message "no results found"
\* and a non-zero status; a rendering step is executed only in runs in which
\* some extractor returned a non-empty table.
NoResultsIsFatal ==
    /\ (fs.results_dir /\ AllExtracted /\ NoneExtracted) =>
           /\ StepsDone \cap ({"merge"} \cup RenderSteps) = {}
           /\ "check_any" \in StepsDone =>
                  /\ pc = "exited"
                  /\ exit_code \notin {-1, 0}
                  /\ printed[Len(printed)] = "Error: No benchmark results found!"
    /\ StepsDone \cap RenderSteps # {} => ~NoneExtracted

\* C5 witness: a run ended with "no results found" although a source file
\* was located and read.
NoResultsWitness ==
    /\ pc = "exited" /\ "check_any" \in StepsDone /\ NoneExtracted
    /\ located.js # NoPath /\ "js" \notin fs.vanished
    /\ fs.content.js # <<>>

\* the format has no file: the locator found none, or it is gone at open()
Missing(f) == "locate" \in StepsDone /\ (located[f] = NoPath \/ f \in fs.vanished)

ResultsOf(f) ==
    CASE f = "java" -> java_results [] f = "js" -> js_results
      [] f = "rust" -> rust_results

ParseStep(f) ==
    CASE f = "java" -> "parse_java" [] f = "js" -> "parse_js"
      [] f = "rust" -> "parse_rust"

\* C6: a format without a file contributes the empty table and its extractor
\* does not fail; when another format returned a non-empty table the run
\* goes through merge and rendering to exit status 0, and the merged table
\* is the merge of the tables of the formats that have a file.
MissingFileIsNotFatal ==
    /\ \A f \in Formats :
           (Missing(f) /\ ParseStep(f) \in StepsDone) =>
               /\ ResultsOf(f) = EmptyDict
               /\ steps[Len(steps)] = ParseStep(f) => pc # "crashed"
    /\ ("check_any" \in StepsDone /\ (\E f \in Formats : Missing(f))
            /\ ~NoneExtracted) =>
           /\ pc # "crashed"
           /\ pc = "exited" =>
                  /\ exit_code = 0
                  /\ {"merge"} \cup RenderSteps \subseteq StepsDone
           /\ "merge" \in StepsDone =>
                  \A k \in DOMAIN all_results \cup
                           UNION {DOMAIN ResultsOf(f) : f \in Formats} :
                      /\ k \in DOMAIN all_results
                      /\ all_results[k] =
                             (IF Missing("java") THEN <<>> ELSE ListOf(java_results, k))
                             \o (IF Missing("js") THEN <<>> ELSE ListOf(js_results, k))
                             \o (IF Missing("rust") THEN <<>> ELSE ListOf(rust_results, k))

\* C6 witness: a complete run in which the Java file vanished before open(),
\* no JavaScript file was found and the Rust file gave results.
MissingFileWitness ==
    /\ pc = "exited" /\ exit_code = 0
    /\ "java" \in fs.vanished
    /\ located.js = NoPath
    /\ rust_results # EmptyDict

FixedOrder ==
    <<"check_dir", "mkdir", "locate", "parse_java", "parse_js", "parse_rust",
      "check_any", "merge", "render_time", "render_throughput",
      "render_per_library", "render_typescript", "finish">>

\* C7: without the results directory only the directory check runs: it
\* reports the error and exits with status 1, the output directory is not
\* created, nothing is located, extracted, merged or rendered; with the
\* directory the steps executed are always an initial part of the fixed order.
PipelineOrder ==
    /\ ~fs.results_dir =>
           /\ steps \in {<<>>, <<"check_dir">>}
           /\ ~fs.output_dir
           /\ located = NotLocated
           /\ NoneExtracted /\ all_results = EmptyDict /\ saved = <<>>
           /\ steps = <<"check_dir">> =>
                  /\ pc = "exited" /\ exit_code = 1
                  /\ printed # <<>>
                  /\ printed[1] = "Error: Results directory not found"
    /\ fs.results_dir =>
           /\ Len(steps) <= Len(FixedOrder)
           /\ steps = SubSeq(FixedOrder, 1, Len(steps))

\* C7 witness: the run without the results directory has ended.
MissingDirectoryWitness == ~fs.results_dir /\ pc = "exited"

\* C10: in a run that reaches rendering the merged table is non-empty, none
\* of its lists is empty, and no chart function fails on an empty list.
RenderedTableHasNoEmptyList ==
    (pc \in RenderSteps \/ StepsDone \cap RenderSteps # {}) =>
        /\ all_results # EmptyDict
        /\ \A k \in DOMAIN all_results : all_results[k] # <<>>
        /\ pc # "crashed"

\* C10 witness: the per-library and the TypeScript chart were drawn from
\* lists of two or more measurements.
RenderedWitness ==
    /\ pc = "exited" /\ exit_code = 0
    /\ \E n \in 1..Len(saved) :
           saved[n].chart = "typescript_detailed" /\ saved[n].bars >= 2
    /\ \E n \in 1..Len(saved) :
           saved[n].chart = "per_library" /\ saved[n].bars >= 2

====
